---- MODULE Spec2Model ----
(***************************************************************************)
(* Real-time health-monitoring pipeline of HackNMake: the per-device       *)
(* ingestion session (routes/device.py, services/device/device_data.py),   *)
(* the threshold scorer (domain/data_parser.py) and the dashboard          *)
(* broadcast loop (services/dashboard/animal_health_status.py), coupled    *)
(* only through the tables "animal" and "data".                            *)
(*                                                                         *)
(* Number conventions.  Blood pressure and heart rate are integers.  Body  *)
(* temperatures are held in tenths of a degree (36.5 is 365), averaged     *)
(* blood pressure (round(x, 1)) in tenths, and the health percentage       *)
(* (round(x, 2)) in hundredths (30.0 is 3000).  A Python value that may be *)
(* None is a sequence of length 0 or 1.                                    *)
(***************************************************************************)
EXTENDS Integers, Sequences, FiniteSets, TLC

None == << >>
Some(v) == << v >>

RECURSIVE SumSeq(_)
SumSeq(s) == IF s = << >> THEN 0 ELSE Head(s) + SumSeq(Tail(s))

\* Python's s[:n]
Take(s, n) == SubSeq(s, 1, IF Len(s) < n THEN Len(s) ELSE n)

\* Python's round() of num/den, num >= 0 and den > 0: to nearest, ties to even
RoundHalfEven(num, den) ==
    LET q == num \div den
        r == num % den
    IN  IF 2 * r < den THEN q
        ELSE IF 2 * r > den THEN q + 1
        ELSE IF q % 2 = 0 THEN q ELSE q + 1

\* round(x, 1) of the double x = num/den tenths, 320 <= x < 640 (a body
\* temperature): to the nearest tenth; a decimal tie k.k5 is a tie of the
\* double, resolved to the even tenth, only when it is a multiple of 0.25;
\* the double nearest to a tie ending in .05 or .15 (.55, .65) lies below it
\* and the one nearest to a tie ending in .35 or .45 (.85, .95) above it
RoundTenth(num, den) ==
    LET q == num \div den
        r == num % den
        hundredths == 10 * q + 5
    IN  IF 2 * r < den THEN q
        ELSE IF 2 * r > den THEN q + 1
        ELSE IF hundredths % 50 = 25 THEN (IF q % 2 = 0 THEN q ELSE q + 1)
        ELSE IF hundredths % 50 \in {35, 45} THEN q + 1
        ELSE q

(***************************************************************************)
(* The scorer, parse_health_data.                                          *)
(***************************************************************************)
WindowSize == 5

\* A stored blood_pressure (JSONB): shape "dict" for a JSON object, "other"
\* for any other JSON value; numeric = FALSE when the values under
\* "systolic"/"diastolic" are not numbers.
BpDict(s, d) == Some([shape |-> "dict", numeric |-> TRUE, systolic |-> s, diastolic |-> d])
BpBadValues == Some([shape |-> "dict", numeric |-> FALSE, systolic |-> Some(0), diastolic |-> Some(0)])
BpNotDict == Some([shape |-> "other", numeric |-> TRUE, systolic |-> None, diastolic |-> None])

AbsentAssessment ==
    [overall_health_percentage |-> None, health_status |-> None,
     blood_pressure |-> None, body_temp |-> None, heart_rate |-> None]

\* systolic and diastolic in tenths, after round(avg, 1)
BpScore(systolic, diastolic) ==
    IF 900 <= systolic /\ systolic <= 1200 /\ 600 <= diastolic /\ diastolic <= 800 THEN 100
    ELSE IF (1200 < systolic /\ systolic <= 1400) \/ (800 < diastolic /\ diastolic <= 900) THEN 70
    ELSE IF systolic > 1400 \/ diastolic > 900 THEN 30
    ELSE IF systolic < 900 \/ diastolic < 600 THEN 50
    ELSE 60

\* (mutant) the average is banded after round(body_temp, 1)
TempScoreOfRounded(total, n) ==
    LET body_temp == RoundHalfEven(total, n)
    IN  IF 365 <= body_temp /\ body_temp <= 375 THEN 100
        ELSE IF 375 < body_temp /\ body_temp <= 380 THEN 70
        ELSE IF body_temp > 380 THEN 30
        ELSE 50

\* float("nan"): the body_temp that float(body_temp) stores for the frame
\* value "nan" or the JSON literal NaN, written as a number that no
\* temperature in tenths takes
NaN == -1

\* line 74: sum(body_temps); a sum over a NaN is NaN
SumTemps(body_temps) ==
    IF \E i \in 1..Len(body_temps) : body_temps[i] = NaN THEN NaN
    ELSE SumSeq(body_temps)

\* body_temp = total/n tenths of a degree, not rounded before it is banded; the
\* quotient is taken exactly, and for the histories of this model the double
\* that sum()/len() yields lies in the same band.  Every comparison with a NaN
\* average is false, which leaves the final else.
TempScore(total, n) ==
    IF total # NaN /\ 365 * n <= total /\ total <= 375 * n THEN 100
    ELSE IF total # NaN /\ 375 * n < total /\ total <= 380 * n THEN 70
    ELSE IF total # NaN /\ total > 380 * n THEN 30
    ELSE IF total # NaN /\ total < 365 * n THEN 50
    ELSE 60

\* line 148: round(body_temp, 1); round(nan, 1) is nan
ReportedTemp(total, n) == IF total = NaN THEN NaN ELSE RoundTenth(total, n)

\* (mutant) the normal band is open at both ends
HrScoreOpenBand(heart_rate) ==
    IF 60 < heart_rate /\ heart_rate < 100 THEN 100
    ELSE IF 100 <= heart_rate /\ heart_rate <= 120 THEN 70
    ELSE IF heart_rate > 120 THEN 30
    ELSE 50

\* heart_rate is the rounded average
HrScore(heart_rate) ==
    IF 60 <= heart_rate /\ heart_rate <= 100 THEN 100
    ELSE IF 100 < heart_rate /\ heart_rate <= 120 THEN 70
    ELSE IF heart_rate > 120 THEN 30
    ELSE IF heart_rate < 60 THEN 50
    ELSE 60

\* (mutant) the average is cut to an integer
HeartRateTruncated(heart_rates) == SumSeq(heart_rates) \div Len(heart_rates)

\* lines 76-77: heart_rate = round(sum(heart_rates) / len(heart_rates))
HeartRateAverage(heart_rates) == RoundHalfEven(SumSeq(heart_rates), Len(heart_rates))

\* (mutant) the tiers start above 80 and above 50
StatusOfAbove(total, n) ==
    IF total > 80 * n THEN "normal"
    ELSE IF total > 50 * n THEN "warning"
    ELSE "critical"

\* lines 133-138: the status tier of overall_health_percentage = total/n
StatusOf(total, n) ==
    IF total >= 80 * n THEN "normal"
    ELSE IF total >= 50 * n THEN "warning"
    ELSE "critical"

\* (mutant) an absent heart rate is counted as 0
HeartRatesZeroFilled(records) ==
    [i \in 1..Len(records) |->
        IF records[i].heart_rate = None THEN 0 ELSE records[i].heart_rate[1]]

\* lines 48-50: the heart rates of the records that have one
HeartRates(records) ==
    LET withHr == SelectSeq(records, LAMBDA r : r.heart_rate # None)
    IN  [i \in 1..Len(withHr) |-> withHr[i].heart_rate[1]]

\* (mutant) every record handed in is analysed
RecordsToAnalyzeAll(data_records) == data_records

\* lines 29-32: data_records[:5] if len(data_records) >= 5 else data_records
RecordsToAnalyze(data_records) == Take(data_records, WindowSize)

\* lines 28-126 for a non-empty window: the values collected per metric, the
\* averages, and the score of each metric that is scored (a sequence of
\* length 0 or 1 per metric)
WindowScores(data_records) ==
    LET records_to_analyze == RecordsToAnalyze(data_records)
        withBp == SelectSeq(records_to_analyze,
                      LAMBDA r : r.blood_pressure # None /\ r.blood_pressure[1].shape = "dict")
        blood_pressures == [i \in 1..Len(withBp) |-> withBp[i].blood_pressure[1]]
        withTemp == SelectSeq(records_to_analyze, LAMBDA r : r.body_temp # None)
        body_temps == [i \in 1..Len(withTemp) |-> withTemp[i].body_temp[1]]
        heart_rates == HeartRates(records_to_analyze)
        withSys == SelectSeq(blood_pressures, LAMBDA b : b.systolic # None)
        systolic_values == [i \in 1..Len(withSys) |-> withSys[i].systolic[1]]
        withDia == SelectSeq(blood_pressures, LAMBDA b : b.diastolic # None)
        diastolic_values == [i \in 1..Len(withDia) |-> withDia[i].diastolic[1]]
        hasBp == systolic_values # << >> /\ diastolic_values # << >>
        \* sum() over a non-number raises TypeError, caught by the outer except
        raises == hasBp /\ \E i \in 1..Len(blood_pressures) : ~blood_pressures[i].numeric
        systolic == RoundHalfEven(10 * SumSeq(systolic_values), Len(systolic_values))
        diastolic == RoundHalfEven(10 * SumSeq(diastolic_values), Len(diastolic_values))
        blood_pressure == IF hasBp THEN Some([systolic |-> systolic, diastolic |-> diastolic])
                          ELSE None
        heart_rate == IF heart_rates # << >>
                      THEN Some(HeartRateAverage(heart_rates))
                      ELSE None
        bpScores == IF hasBp /\ systolic # 0 /\ diastolic # 0
                    THEN << BpScore(systolic, diastolic) >> ELSE << >>
        tempScores == IF body_temps # << >>
                      THEN << TempScore(SumTemps(body_temps), Len(body_temps)) >> ELSE << >>
        hrScores == IF heart_rate # None THEN << HrScore(heart_rate[1]) >> ELSE << >>
    IN  [raises |-> raises,
         body_temps |-> body_temps, heart_rates |-> heart_rates,
         blood_pressure |-> blood_pressure,
         body_temp |-> IF body_temps # << >>
                       THEN Some(ReportedTemp(SumTemps(body_temps), Len(body_temps)))
                       ELSE None,
         heart_rate |-> heart_rate,
         bp_score |-> bpScores, temp_score |-> tempScores, hr_score |-> hrScores]

\* (mutant) the percentage is the sum of the scores
AssessmentOfSum(w, scores) ==
    [overall_health_percentage |-> Some(100 * SumSeq(scores)),
     health_status |-> Some(StatusOf(SumSeq(scores), Len(scores))),
     blood_pressure |-> w.blood_pressure,
     body_temp |-> w.body_temp,
     heart_rate |-> w.heart_rate]

\* lines 128-138: overall_health_percentage = sum(scores) / len(scores), returned
\* as round(x, 2), and the status tier of the quotient
Assessment(w, scores) ==
    [overall_health_percentage |-> Some(RoundHalfEven(100 * SumSeq(scores), Len(scores))),
     health_status |-> Some(StatusOf(SumSeq(scores), Len(scores))),
     blood_pressure |-> w.blood_pressure,
     body_temp |-> w.body_temp,
     heart_rate |-> w.heart_rate]

\* (mutant) the except branch reports the worst assessment
ScorerErrorCritical ==
    [AbsentAssessment EXCEPT !.overall_health_percentage = Some(0),
                             !.health_status = Some("critical")]

\* lines 154-156: except Exception: both outputs None
ScorerErrorResult == AbsentAssessment

ParseHealthData(data_records) ==
    IF data_records = << >> THEN AbsentAssessment
    ELSE
    LET w == WindowScores(data_records)
        scores == w.bp_score \o w.temp_score \o w.hr_score
    IN  IF w.raises THEN ScorerErrorResult
        ELSE IF scores = << >> THEN AbsentAssessment
        ELSE Assessment(w, scores)

(***************************************************************************)
(* The Store: table "animal" (Device rows) and table "data" (VitalRecords, *)
(* newest first per device).                                               *)
(***************************************************************************)
VARIABLES animal, data, dash, dev

vars == << animal, data, dash, dev >>

DeviceIds == {"", "cow-1"}
\* The order in which a query returns the rows of "animal"
DeviceOrder == << "", "cow-1" >>
Dashboards == {"obs1", "obs2"}
Sessions == {"s1"}

NoRow == [exists |-> FALSE, status |-> None, is_critical |-> None]
Row(status, is_critical) == [exists |-> TRUE, status |-> status, is_critical |-> is_critical]

Rec(bp, temp, hr) == [blood_pressure |-> bp, body_temp |-> temp, heart_rate |-> hr]

FetchLimit == 8

\* (mutant) the status filter is missing
FetchAllAnimalsData ==
    [keys |-> {d \in DeviceIds : animal[d].exists},
     recs |-> [d \in DeviceIds |->
                  IF animal[d].exists THEN Take(data[d], FetchLimit) ELSE << >>]]

\* fetch_active_animals_data without a Store failure: {animal_id: [data]} for
\* the rows whose status is "active", each with its newest FetchLimit records
FetchActiveAnimalsData ==
    [keys |-> {d \in DeviceIds : animal[d].exists /\ animal[d].status = Some("active")},
     recs |-> [d \in DeviceIds |->
                  IF animal[d].exists /\ animal[d].status = Some("active")
                  THEN Take(data[d], FetchLimit) ELSE << >>]]

\* (mutant) a Store failure is not turned into {}
FetchIgnoringFailure == FetchActiveAnimalsData

\* what the except branch of fetch_active_animals_data returns
EmptyFetch == [keys |-> {}, recs |-> [d \in DeviceIds |-> << >>]]

\* db = SessionLocal() at the head of fetch_active_animals_data, get_device_data,
\* manage_data and update_animal_status_if_critical
DbOpened(st) == [st EXCEPT !.db_open = @ + 1]

\* (mutant) the session is left open
DbLeftOpen(st) == st

\* "finally: db.close()", which ends each of the four, on return and on raise
DbClosed(st) == [st EXCEPT !.db_open = @ - 1]

(***************************************************************************)
(* The dashboard broadcast loop, get_status, one per observer connection.  *)
(* pc: "off" (no such connection), "start" (accepted), "loop" (inside the  *)
(* for loop), "upd_query"/"upd_commit" (inside                             *)
(* update_animal_status_if_critical), "send", "sleep", "err_send" (the     *)
(* except branch), "done" (get_status returned), "closed" (route ended).   *)
(***************************************************************************)
NoUpdate == [device |-> "", prior |-> None]

\* (mutant) initial_sent starts True
DashStartSteady ==
    [pc |-> "start", ws |-> "open", initial_sent |-> TRUE,
     animals_data |-> EmptyFetch, todo |-> << >>, hm |-> AbsentAssessment,
     list |-> << >>, total_critical |-> 0, total_active |-> 0, total_device |-> 0,
     upd |-> NoUpdate, db_open |-> 0,
     sent_any |-> FALSE, err_sent |-> FALSE, requested |-> {}, upd_ret |-> None,
     fetch_failed |-> FALSE, reported |-> {}, ticks_after_close |-> 0,
     direct |-> None]

DashStart ==
    [pc |-> "start", ws |-> "open", initial_sent |-> FALSE,
     animals_data |-> EmptyFetch, todo |-> << >>, hm |-> AbsentAssessment,
     list |-> << >>, total_critical |-> 0, total_active |-> 0, total_device |-> 0,
     upd |-> NoUpdate,
     \* the Store sessions this loop holds open
     db_open |-> 0,
     \* history, not program state: a snapshot was sent, an error frame was sent,
     \* the devices whose flag update was requested in this tick, the last
     \* call of update_animal_status_if_critical, whether the fetch of this tick
     \* hit a Store failure, the devices that appeared in a snapshot sent on this
     \* connection, the ticks started after the observer went away, and the
     \* device_id argument of the last call of parse_health_data made outside
     \* the for loop
     sent_any |-> FALSE, err_sent |-> FALSE, requested |-> {}, upd_ret |-> None,
     fetch_failed |-> FALSE, reported |-> {}, ticks_after_close |-> 0,
     direct |-> None]

DashOff == [DashStart EXCEPT !.pc = "off"]

\* the keys of animals_data in iteration order
RECURSIVE KeysInOrder(_, _)
KeysInOrder(order, keys) ==
    IF order = << >> THEN << >>
    ELSE IF Head(order) \in keys THEN << Head(order) >> \o KeysInOrder(Tail(order), keys)
    ELSE KeysInOrder(Tail(order), keys)

\* lines 124-131: after the for loop the response is built and the send is next
EndIteration(st) == IF st.todo = << >> THEN [st EXCEPT !.pc = "send"] ELSE [st EXCEPT !.pc = "loop"]

\* AnimalHealthStatus(...) validates blood_pressure: Optional[dict]
EntryIsValid(blood_pressure) == blood_pressure = None \/ blood_pressure[1].shape = "dict"

\* (mutant) the health fields are never filled in
HealthFieldsAlwaysNull(st) == [overall_health_percentage |-> None, health_status |-> None]

\* lines 73-90: the health fields of an entry, st.hm being parse_health_data's result
HealthFields(st) ==
    IF st.initial_sent
    THEN [overall_health_percentage |-> st.hm.overall_health_percentage,
          health_status |-> st.hm.health_status]
    ELSE [overall_health_percentage |-> None, health_status |-> None]

\* (mutant) a warning is counted as critical too
CountsAsCriticalOrWarning(health) == health.health_status \in {Some("critical"), Some("warning")}

\* lines 84-86: total_critical counts the entries whose health_status is "critical"
CountsAsCritical(health) == health.health_status = Some("critical")

\* lines 92-122 for device d: the entry is appended, or its construction raises
BuildEntry(st, d) ==
    LET latest_record == st.animals_data.recs[d][1]
        health == HealthFields(st)
        entry == [animal_id |-> d,
                  overall_health_percentage |-> health.overall_health_percentage,
                  health_status |-> health.health_status]
        \* after the initial send blood_pressure is the averaged one, a dict or None
        valid == st.initial_sent \/ EntryIsValid(latest_record.blood_pressure)
    IN  IF ~valid
        THEN [st EXCEPT !.pc = "err_send", !.upd = NoUpdate]
        ELSE EndIteration([st EXCEPT
                 !.list = Append(@, entry),
                 !.total_critical = IF CountsAsCritical(health) THEN @ + 1 ELSE @,
                 !.total_active = @ + 1,
                 !.total_device = @ + 1,
                 !.upd = NoUpdate])

\* the count of ticks started after the closure stops here
MaxTicksCounted == 2

\* line 52: a tick starts; a Store failure inside the fetch yields {}
DashFetch(c) ==
    /\ dash[c].pc \in {"start", "sleep"}
    /\ \E ok \in BOOLEAN :
         LET fetched == IF ok THEN FetchActiveAnimalsData ELSE EmptyFetch
             st == [dash[c] EXCEPT
                      !.animals_data = fetched,
                      !.todo = KeysInOrder(DeviceOrder, fetched.keys),
                      !.hm = AbsentAssessment,
                      !.list = << >>, !.total_critical = 0,
                      !.total_active = 0, !.total_device = 0,
                      !.requested = {}, !.upd_ret = None,
                      !.fetch_failed = ~ok,
                      !.ticks_after_close =
                          IF dash[c].ws = "open" \/ @ >= MaxTicksCounted THEN @ ELSE @ + 1]
         IN  dash' = [dash EXCEPT ![c] = EndIteration(DbClosed(DbOpened(st)))]
    /\ UNCHANGED << animal, data, dev >>

\* (mutant) the flag update is called whatever the status is
WantsUpdateAlways(hm, device_id) == device_id # ""

\* data_parser.py line 141: the flag update is called for a critical device
WantsUpdate(hm, device_id) == hm.health_status = Some("critical") /\ device_id # ""

\* (mutant) the scorer is called in every tick
ScoredInEveryTick(st) == TRUE

\* lines 74-78: "if initial_sent:" guards the call of parse_health_data
ScoredInTick(st) == st.initial_sent

\* (mutant) a device without records is counted
SkippedButCounted(st) == [st EXCEPT !.total_device = @ + 1]

\* lines 61-62: a device without records is skipped by "continue"
Skipped(st) == st

\* lines 60-90: one iteration of the for loop, up to the call of
\* update_animal_status_if_critical when parse_health_data makes it
DashScore(c) ==
    /\ dash[c].pc = "loop"
    /\ LET d == Head(dash[c].todo)
           data_records == dash[c].animals_data.recs[d]
           last_5_records == Take(data_records, 5)
           st0 == [dash[c] EXCEPT !.todo = Tail(@)]
           hm == ParseHealthData(last_5_records)
       IN  IF data_records = << >> THEN dash' = [dash EXCEPT ![c] = EndIteration(Skipped(st0))]
           ELSE IF ~ScoredInTick(dash[c]) THEN dash' = [dash EXCEPT ![c] = BuildEntry(st0, d)]
           ELSE IF WantsUpdate(hm, d)
                THEN dash' = [dash EXCEPT ![c] =
                                 [st0 EXCEPT !.hm = hm, !.pc = "upd_query",
                                             !.upd = [device |-> d, prior |-> None],
                                             !.requested = @ \cup {d}]]
                ELSE dash' = [dash EXCEPT ![c] = BuildEntry([st0 EXCEPT !.hm = hm], d)]
    /\ UNCHANGED << animal, data, dev >>

\* the end of a call of update_animal_status_if_critical: what it read, whether
\* the Store raised, and what it returned
Returned(d, prior, failed, ret) ==
    Some([device |-> d, prior |-> prior, failed |-> failed, ret |-> ret])

\* data_parser.py lines 176-184: the session is opened and the row is read
DashUpdQuery(c) ==
    /\ dash[c].pc = "upd_query"
    /\ LET d == dash[c].upd.device
       IN  \E ok \in BOOLEAN :
             IF ok /\ animal[d].exists
             THEN dash' = [dash EXCEPT ![c] =
                              DbOpened([@ EXCEPT !.pc = "upd_commit",
                                        !.upd = [device |-> d, prior |-> animal[d].is_critical]])]
             ELSE \* the row is missing, or the query raised and was rolled back: False
                  dash' = [dash EXCEPT ![c] =
                              BuildEntry(DbClosed(DbOpened(
                                  [@ EXCEPT !.upd_ret = Returned(d, None, ~ok, FALSE)])), d)]
    /\ UNCHANGED << animal, data, dev >>

\* (mutant) the commit also overwrites status
CommittedRowSetsStatus(row) == [row EXCEPT !.is_critical = Some(TRUE), !.status = Some("critical")]

\* (mutant) the commit toggles the flag
CommittedRowToggles(row) ==
    [row EXCEPT !.is_critical = IF @ = Some(TRUE) THEN Some(FALSE) ELSE Some(TRUE)]

\* data_parser.py line 186: what the commit writes to the row
CommittedRow(row) == [row EXCEPT !.is_critical = Some(TRUE)]

\* (mutant) the flag set before a failed commit stays
FlagKeptAfterFailure(row) == CommittedRow(row)

\* data_parser.py lines 193-196: db.rollback() undoes "is_critical = True"
FlagRolledBack(row) == row

\* (mutant) False when the flag was already set
UpdateReturnsOnlyOnChange(prior, committed) == committed /\ prior # Some(TRUE)

\* data_parser.py lines 188-197: True after the commit, False after a rollback
UpdateReturns(prior, committed) == committed

\* data_parser.py lines 186-199: is_critical = True, commit (or rollback)
DashUpdCommit(c) ==
    /\ dash[c].pc = "upd_commit"
    /\ LET d == dash[c].upd.device
           prior == dash[c].upd.prior
       IN  \E ok \in BOOLEAN :
             /\ animal' = IF ok THEN [animal EXCEPT ![d] = CommittedRow(@)]
                          ELSE [animal EXCEPT ![d] = FlagRolledBack(@)]
             /\ dash' = [dash EXCEPT ![c] =
                            BuildEntry(DbClosed([@ EXCEPT !.upd_ret =
                                Returned(d, prior, ~ok, UpdateReturns(prior, ok))]), d)]
    /\ UNCHANGED << data, dev >>

\* lines 141-150: the snapshot went out
AfterSnapshotSent(st) ==
    [st EXCEPT !.pc = "sleep", !.initial_sent = TRUE, !.sent_any = TRUE,
               !.reported = @ \cup { st.list[i].animal_id : i \in 1..Len(st.list) }]

\* (mutant) a failed send is followed by the sleep and the next tick
AfterSendFailedRetries(st) == [st EXCEPT !.pc = "sleep"]

\* lines 135-139: send_json raised, the loop breaks
AfterSendFailed(st) == [st EXCEPT !.pc = "done"]

\* lines 124-131: the response that is sent
Response(st) ==
    [data |-> st.list, total |-> Len(st.list), total_critical |-> st.total_critical,
     total_active |-> st.total_active, total_device |-> st.total_device]

\* lines 133-150: the snapshot is sent, or the send raises and the loop breaks
DashSend(c) ==
    /\ dash[c].pc = "send"
    /\ dash' = [dash EXCEPT ![c] =
                   IF @.ws = "open" THEN AfterSnapshotSent(@) ELSE AfterSendFailed(@)]
    /\ UNCHANGED << animal, data, dev >>

\* (mutant) the except branch marks the initial snapshot as sent
AfterErrorFrameMarksSent(st) == [st EXCEPT !.pc = "sleep", !.err_sent = TRUE, !.initial_sent = TRUE]

\* lines 155-156: the error frame went out
AfterErrorFrame(st) == [st EXCEPT !.pc = "sleep", !.err_sent = TRUE]

\* lines 152-160: the except branch sends an error frame and sleeps, or breaks
DashErrSend(c) ==
    /\ dash[c].pc = "err_send"
    /\ dash' = [dash EXCEPT ![c] =
                   IF @.ws = "open" THEN AfterErrorFrame(@) ELSE [@ EXCEPT !.pc = "done"]]
    /\ UNCHANGED << animal, data, dev >>

\* (mutant) the RuntimeError of closing a closed connection leaves the route
ClosedInFinallyRaises(st) ==
    IF st.ws = "open" THEN [st EXCEPT !.pc = "closed", !.ws = "server_closed"]
    ELSE [st EXCEPT !.pc = "raised"]

\* "finally: try: await websocket.close() except RuntimeError: pass except
\* Exception: pass" of both routes: an open connection is closed, the error of
\* closing a closed one is swallowed
ClosedInFinally(st) ==
    [st EXCEPT !.pc = "closed", !.ws = IF @ = "open" THEN "server_closed" ELSE @]

\* routes/dashboard.py lines 26-35: the finally block closes the connection
DashClose(c) ==
    /\ dash[c].pc = "done"
    /\ dash' = [dash EXCEPT ![c] = ClosedInFinally(@)]
    /\ UNCHANGED << animal, data, dev >>

\* the observer goes away
DashPeerClose(c) ==
    /\ dash[c].pc \notin {"off", "closed"}
    /\ dash[c].ws = "open"
    /\ dash' = [dash EXCEPT ![c] = [@ EXCEPT !.ws = "peer_closed"]]
    /\ UNCHANGED << animal, data, dev >>

(***************************************************************************)
(* The ingestion session: routes/device.py device_data and                 *)
(* services/device/device_data.py.  pc: "off", "start" (accepted),         *)
(* "recv" (parked at receive_json), "json_err" (the except branch for      *)
(* JSONDecodeError is about to send its error frame), "exc_err",           *)
(* "persist_err" and "disc_err" (the except branch for Exception is about  *)
(* to send its error frame, the exception coming from data.keys(), from    *)
(* manage_data, or being the WebSocketDisconnect of receive_json),         *)
(* "nf_close" (the error frame for an unknown device is sent, close(1008)  *)
(* is next), "done" (the route's finally block is next), "closed".         *)
(***************************************************************************)
MaxRecords == 1
MaxErrFrames == 1

\* a number in a frame, in tenths, or a value that float()/int() reject
Num(t) == [number |-> TRUE, tenths |-> t]
NotNum == [number |-> FALSE, tenths |-> 0]
Frame(kind, body_temp, heart_rate) ==
    [kind |-> kind, body_temp |-> body_temp, heart_rate |-> heart_rate]

\* inbound messages: text that is not JSON, JSON that is not an object, and
\* objects {"heart_rate": 180}, {"body_temp": 37.0, "heart_rate": 80.7},
\* {"heart_rate": "abc"}
Frames ==
    { Frame("undecodable", None, None),
      Frame("not_object", None, None),
      Frame("object", None, Some(Num(1800))),
      Frame("object", Some(Num(370)), Some(Num(807))),
      Frame("object", None, Some(NotNum)) }

\* draws of the BEFORE INSERT trigger generate_random_health_values, which
\* fills a NULL blood_pressure (systolic 90..180, diastolic 60..120), body_temp
\* (36.5..40.0) and heart_rate (60..150) at random
TriggerBp == { BpDict(Some(120), Some(80)), BpDict(Some(180), Some(120)) }
TriggerTemp == { 400 }
TriggerHr == { 150 }

\* manage_data lines 131-134: float(body_temp), int(heart_rate) raise on a non-number
CastRaises(frame) ==
    \/ frame.body_temp # None /\ ~frame.body_temp[1].number
    \/ frame.heart_rate # None /\ ~frame.heart_rate[1].number

\* the rows manage_data may insert for a frame, the trigger filling each NULL vital
InsertedRecords(frame) ==
    { Rec(bp, Some(t), Some(h)) :
        bp \in TriggerBp,
        t \in IF frame.body_temp = None THEN TriggerTemp ELSE { frame.body_temp[1].tenths },
        h \in IF frame.heart_rate = None THEN TriggerHr ELSE { frame.heart_rate[1].tenths \div 10 } }

QueryIds == { None } \cup { Some(d) : d \in DeviceIds }

DevStart(id) ==
    [pc |-> "start", ws |-> "open", id |-> id, device_id |-> None, close_code |-> None,
     \* the Store sessions this connection holds open
     db_open |-> 0,
     \* history, not program state: what the lookup found ("none" before it),
     \* whether the receive loop was entered, the error frames sent, the sends
     \* attempted on a closed connection, whether an undecodable frame was
     \* answered, whether a record was stored after that, and whether a failure
     \* of manage_data was answered
     lookup |-> "none", entered_loop |-> FALSE, n_err |-> 0, closed_sends |-> 0,
     json_err_seen |-> FALSE, stored_after |-> FALSE, persist_err_seen |-> FALSE]

DevOff == [DevStart(None) EXCEPT !.pc = "off"]

\* send_json of an error frame: it goes out, or the connection is closed and it raises
ErrFrameSent(st) == [st EXCEPT !.n_err = @ + 1]
SendRaised(st) == [st EXCEPT !.closed_sends = @ + 1]

\* (mutant) every session writes for the device "cow-1"
DeviceIdFixed(id) == Some("cow-1")

\* handle_device_data line 151: device_data.get("id") or device_data.get("device_id")
DeviceIdOf(id) == IF id[1] # "" THEN id ELSE None

\* (mutant) an unknown device is let into the receive loop after the error frame
AfterNotFoundGoesOn(st) ==
    IF st.ws = "open" THEN ErrFrameSent([st EXCEPT !.pc = "recv", !.device_id = st.id])
    ELSE SendRaised([st EXCEPT !.pc = "done"])

\* device_data lines 60-66: the device is unknown
AfterNotFound(st) ==
    IF st.ws = "open" THEN ErrFrameSent([st EXCEPT !.pc = "nf_close"])
    ELSE SendRaised([st EXCEPT !.pc = "done"])

\* handle_device_data lines 153-159: "Device ID not found", then return
AfterNoDeviceId(st) ==
    IF st.ws = "open" THEN ErrFrameSent([st EXCEPT !.pc = "done"])
    ELSE SendRaised([st EXCEPT !.pc = "done"])

\* (mutant) only an active device is found
KnownAndActive(id) ==
    id # None /\ animal[id[1]].exists /\ animal[id[1]].status = Some("active")

\* get_device_data lines 69-78: the row is looked up by id alone
Known(id) == id # None /\ animal[id[1]].exists

\* device_data lines 54-66 with get_device_data and the head of handle_device_data;
\* get_device_data returns None for a missing row and when the Store raises
DevLookup(s) ==
    /\ dev[s].pc = "start"
    /\ \E ok \in BOOLEAN :
         LET id == dev[s].id
             known == Known(id)
             st == DbClosed(DbOpened(
                       [dev[s] EXCEPT !.lookup = IF ~known THEN "unknown"
                                               ELSE IF ok THEN "found" ELSE "error"]))
         IN  IF known /\ ok
             THEN IF DeviceIdOf(id) # None
                  THEN dev' = [dev EXCEPT ![s] =
                                  [st EXCEPT !.pc = "recv", !.device_id = DeviceIdOf(id),
                                             !.entered_loop = TRUE]]
                  ELSE dev' = [dev EXCEPT ![s] = AfterNoDeviceId(st)]
             ELSE dev' = [dev EXCEPT ![s] = AfterNotFound(st)]
    /\ UNCHANGED << animal, data, dash >>

\* the close code of an unknown device
PolicyViolation == 1008

\* device_data line 64: close(code=1008); on a closed connection it raises and is swallowed
DevNotFoundClose(s) ==
    /\ dev[s].pc = "nf_close"
    /\ dev' = [dev EXCEPT ![s] =
                  IF @.ws = "open"
                  THEN [@ EXCEPT !.pc = "done", !.ws = "server_closed",
                                 !.close_code = Some(PolicyViolation)]
                  ELSE [@ EXCEPT !.pc = "done"]]
    /\ UNCHANGED << animal, data, dash >>

\* (mutant) the new row replaces the rows of the device
StoredReplacing(history, r) == << r >>

\* manage_data lines 137-140: the row is added and committed
Stored(history, r) == << r >> \o history

\* (mutant) the row of a failed commit stays in the table
KeptAfterFailure(history, r) == Stored(history, r)

\* manage_data lines 141-146: db.rollback() undoes the add of a failed commit
RolledBack(history, r) == history

\* handle_device_data lines 165-171: receive_json, then manage_data
DevReceive(s) ==
    /\ dev[s].pc = "recv"
    /\ IF dev[s].ws # "open"
       THEN \* WebSocketDisconnect, caught by "except Exception"
            /\ dev' = [dev EXCEPT ![s] = [@ EXCEPT !.pc = "disc_err"]]
            /\ data' = data
       ELSE \E frame \in Frames, ok \in BOOLEAN :
              LET d == dev[s].device_id[1]
              IN  IF frame.kind # "object"
                  THEN \* receive_json or data.keys() raises
                       /\ dev[s].n_err < MaxErrFrames
                       /\ dev' = [dev EXCEPT ![s] =
                                     [@ EXCEPT !.pc = IF frame.kind = "undecodable"
                                                      THEN "json_err" ELSE "exc_err"]]
                       /\ data' = data
                  ELSE IF CastRaises(frame)
                  THEN \* float() or int() raises before the add
                       /\ dev[s].n_err < MaxErrFrames
                       /\ dev' = [dev EXCEPT ![s] =
                                     DbClosed(DbOpened([@ EXCEPT !.pc = "persist_err"]))]
                       /\ data' = data
                  ELSE IF ~ok
                  THEN \* the commit raises
                       /\ dev[s].n_err < MaxErrFrames
                       /\ dev' = [dev EXCEPT ![s] =
                                     DbClosed(DbOpened([@ EXCEPT !.pc = "persist_err"]))]
                       /\ \E r \in InsertedRecords(frame) :
                            data' = [data EXCEPT ![d] = RolledBack(@, r)]
                  ELSE /\ Len(data[d]) < MaxRecords
                       /\ \E r \in InsertedRecords(frame) :
                            data' = [data EXCEPT ![d] = Stored(@, r)]
                       /\ dev' = [dev EXCEPT ![s] =
                                     DbClosed(DbOpened(
                                         [@ EXCEPT !.stored_after = @ \/ dev[s].json_err_seen]))]
    /\ UNCHANGED << animal, dash >>

\* (mutant) the loop breaks after the error frame
AfterErrFrameBreaks(st) ==
    ErrFrameSent([st EXCEPT !.pc = "done",
                            !.json_err_seen = @ \/ st.pc = "json_err",
                            !.persist_err_seen = @ \/ st.pc = "persist_err"])

\* lines 178-182 and 198-202: the error frame went out, the loop goes on
AfterErrFrame(st) ==
    ErrFrameSent([st EXCEPT !.pc = "recv",
                            !.json_err_seen = @ \/ st.pc = "json_err",
                            !.persist_err_seen = @ \/ st.pc = "persist_err"])

\* handle_device_data lines 178-189 and 198-211: the error frame, or break
DevErrSend(s) ==
    /\ dev[s].pc \in {"json_err", "exc_err", "persist_err", "disc_err"}
    /\ dev' = [dev EXCEPT ![s] =
                  IF @.ws = "open" THEN AfterErrFrame(@)
                  ELSE SendRaised([@ EXCEPT !.pc = "done"])]
    /\ UNCHANGED << animal, data, dash >>

\* device_data lines 85-94: the finally block closes; closing twice is swallowed
DevClose(s) ==
    /\ dev[s].pc = "done"
    /\ dev' = [dev EXCEPT ![s] = ClosedInFinally(@)]
    /\ UNCHANGED << animal, data, dash >>

\* the device goes away
DevPeerClose(s) ==
    /\ dev[s].pc \notin {"off", "closed"}
    /\ dev[s].ws = "open"
    /\ dev' = [dev EXCEPT ![s] = [@ EXCEPT !.ws = "peer_closed"]]
    /\ UNCHANGED << animal, data, dash >>

(***************************************************************************)
(* Operations on Device rows outside the two loops.                        *)
(***************************************************************************)
\* the row create_animal inserts
NewAnimal == Row(None, None)

\* (mutant) create_animal overwrites an existing row
CreatedRowOverwrites(row) == NewAnimal

\* create_animal lines 229-247: an existing device_id is refused
CreatedRow(row) == IF row.exists THEN row ELSE NewAnimal

CreateAnimal(d) ==
    /\ animal' = [animal EXCEPT ![d] = CreatedRow(@)]
    /\ UNCHANGED << data, dash, dev >>

\* update_animal_status line 34: the row after the update
StatusUpdated(row, status) == [row EXCEPT !.status = Some(status)]

\* update_animal_status, the activation API; False when the row is missing
UpdateAnimalStatus(d, status) ==
    /\ animal' = [animal EXCEPT ![d] = IF @.exists THEN StatusUpdated(@, status) ELSE @]
    /\ UNCHANGED << data, dash, dev >>

(***************************************************************************)
(* Specifications.                                                         *)
(***************************************************************************)
\* rows as manage_data and the trigger leave them: {"heart_rate": 180} with
\* blood pressure 180/120 or 120/80 and body_temp 40.0 drawn,
\* {"body_temp": 37.0, "heart_rate": 80.7} with 120/80 drawn
RecCritical == Rec(BpDict(Some(180), Some(120)), Some(400), Some(180))
RecWarning == Rec(BpDict(Some(120), Some(80)), Some(400), Some(180))
RecNormal == Rec(BpDict(Some(120), Some(80)), Some(370), Some(80))
\* rows written to the JSONB column by another client of the database: a
\* blood_pressure that is not a JSON object, one whose values are not numbers
RecBpNotDict == Rec(BpNotDict, Some(400), Some(150))
RecBpBadValues == Rec(BpBadValues, Some(370), Some(80))

SeedHistories ==
    { << >>, << RecCritical >>, << RecNormal >>, << RecWarning >>, << RecBpNotDict >>,
      << RecWarning, RecCritical >>, << RecBpBadValues >> }

DashNext ==
    \E c \in Dashboards :
        \/ DashFetch(c)
        \/ DashScore(c)
        \/ DashUpdQuery(c)
        \/ DashUpdCommit(c)
        \/ DashSend(c)
        \/ DashErrSend(c)
        \/ DashClose(c)
        \/ DashPeerClose(c)

DevNext ==
    \E s \in Sessions :
        \/ DevLookup(s)
        \/ DevNotFoundClose(s)
        \/ DevReceive(s)
        \/ DevErrSend(s)
        \/ DevClose(s)
        \/ DevPeerClose(s)

\* create_animal and the activation API, called for the devices in ids
EnvNextOf(ids) ==
    \E d \in ids :
        \/ CreateAnimal(d)
        \/ \E status \in {"active", "deactive"} : UpdateAnimalStatus(d, status)

EnvNext == EnvNextOf(DeviceIds)

\* The whole system around the one device "cow-1": one observer, the
\* connection of the device, the activation API and create_animal.
Init ==
    /\ animal \in { [d \in DeviceIds |-> IF d = "cow-1" THEN row ELSE NoRow] :
                      row \in {NoRow, Row(Some("active"), None)} }
    /\ data \in { [d \in DeviceIds |-> IF d = "cow-1" THEN h ELSE << >>] :
                    h \in {<< >>, << RecBpNotDict >>} }
    /\ ~animal["cow-1"].exists => data["cow-1"] = << >>
    /\ dash = [c \in Dashboards |-> IF c = "obs1" THEN DashStart ELSE DashOff]
    /\ dev = [s \in Sessions |-> DevStart(Some("cow-1"))]

Next == DashNext \/ DevNext \/ EnvNextOf({"cow-1"})

Spec == Init /\ [][Next]_vars

\* One observer and the activation API, on a store that already holds records.
InitDash ==
    /\ animal \in [DeviceIds -> {NoRow, NewAnimal, Row(Some("active"), None)}]
    /\ data \in [DeviceIds -> SeedHistories]
    /\ \A d \in DeviceIds : ~animal[d].exists => data[d] = << >>
    /\ dash = [c \in Dashboards |-> IF c = "obs1" THEN DashStart ELSE DashOff]
    /\ dev = [s \in Sessions |-> DevOff]

SpecDash == InitDash /\ [][DashNext \/ EnvNext]_vars

\* Two observers on a store that already holds records.
PairHistories == { << >>, << RecCritical >>, << RecBpNotDict >> }

InitPair ==
    /\ animal \in [DeviceIds -> {NoRow, Row(Some("active"), None)}]
    /\ data \in [DeviceIds -> PairHistories]
    /\ \A d \in DeviceIds : ~animal[d].exists => data[d] = << >>
    /\ dash = [c \in Dashboards |-> DashStart]
    /\ dev = [s \in Sessions |-> DevOff]

SpecPair == InitPair /\ [][DashNext]_vars

\* One device connection with any id parameter, the activation API and create_animal.
InitIngest ==
    /\ animal \in [DeviceIds -> {NoRow, NewAnimal}]
    /\ data = [d \in DeviceIds |-> << >>]
    /\ dash = [c \in Dashboards |-> DashOff]
    /\ dev \in [Sessions -> { DevStart(id) : id \in QueryIds }]

SpecIngest == InitIngest /\ [][DevNext \/ EnvNext]_vars

\* the frame {"heart_rate": 180}
HeartRate180 == Frame("object", None, Some(Num(1800)))

\* handle_device_data lines 167-171 for one of the first WindowSize frames
\* {"heart_rate": 180} of a device: received, and stored by manage_data
SendHeartRate180(s) ==
    /\ dev[s].pc = "recv" /\ dev[s].ws = "open"
    /\ Len(data[dev[s].device_id[1]]) < WindowSize
    /\ \E r \in InsertedRecords(HeartRate180) :
         data' = [data EXCEPT ![dev[s].device_id[1]] = Stored(@, r)]
    /\ UNCHANGED << animal, dash, dev >>

\* The scenario of the active device "cow-1" that sends {"heart_rate": 180}
\* five times while one observer is connected.
InitScenario ==
    /\ animal = [d \in DeviceIds |-> IF d = "cow-1" THEN Row(Some("active"), None) ELSE NoRow]
    /\ data = [d \in DeviceIds |-> << >>]
    /\ dash = [c \in Dashboards |-> IF c = "obs1" THEN DashStart ELSE DashOff]
    /\ dev = [s \in Sessions |-> DevStart(Some("cow-1"))]

ScenarioNext ==
    \/ \E s \in Sessions : DevLookup(s) \/ SendHeartRate180(s)
    \/ \E c \in Dashboards :
          \/ DashFetch(c)
          \/ DashScore(c)
          \/ DashUpdQuery(c)
          \/ DashUpdCommit(c)
          \/ DashSend(c)

SpecScenario == InitScenario /\ [][ScenarioNext]_vars

\* the longest history drawn for the scorer
MaxWindow == 2

\* rows around the band boundaries: the frame gives body_temp and heart_rate,
\* the trigger draws the blood pressure (systolic 90..180, diastolic 60..120)
NormalBp == BpDict(Some(120), Some(80))
BpRecords ==
    { Rec(BpDict(Some(sd[1]), Some(sd[2])), Some(370), Some(80)) :
        sd \in { << 90, 60 >>, << 120, 80 >>, << 130, 85 >>, << 150, 85 >>, << 130, 95 >>, << 150, 100 >> } }
TempRecords == { Rec(NormalBp, Some(t), Some(80)) : t \in {360, 365, 375, 376, 380, 381} }
HrRecords == { Rec(NormalBp, Some(370), Some(h)) : h \in {59, 60, 100, 101, 120, 121} }
\* rows in which another client of the database set vitals to NULL
RecNoVitals == Rec(None, None, None)
RecNoTemp == Rec(NormalBp, None, Some(121))
RecOnlyTemp == Rec(None, Some(381), None)
\* the row of a frame {"body_temp": "nan", "heart_rate": 80}
RecNaNTemp == Rec(NormalBp, Some(NaN), Some(80))

ScorerRecords ==
    BpRecords \cup TempRecords \cup HrRecords
        \cup {RecCritical, RecNoVitals, RecNoTemp, RecOnlyTemp, RecNaNTemp}

ScorerWindows == UNION { [1..n -> ScorerRecords] : n \in 1..MaxWindow }

\* The scorer on the history of the active device "cow-1", drawn from
\* ScorerWindows, in the ticks of an observer whose first snapshot, of a fleet
\* without active devices, has gone out.
InitScorer ==
    /\ animal = [d \in DeviceIds |-> IF d = "cow-1" THEN Row(Some("active"), None) ELSE NoRow]
    /\ data \in { [d \in DeviceIds |-> IF d = "cow-1" THEN w ELSE << >>] : w \in ScorerWindows }
    /\ dash = [c \in Dashboards |->
                 IF c = "obs1"
                 THEN [DashStart EXCEPT !.pc = "sleep", !.initial_sent = TRUE, !.sent_any = TRUE]
                 ELSE DashOff]
    /\ dev = [s \in Sessions |-> DevOff]

ScorerNext ==
    \E c \in Dashboards :
        \/ DashFetch(c)
        \/ DashScore(c)
        \/ DashUpdQuery(c)
        \/ DashUpdCommit(c)
        \/ DashSend(c)

SpecScorer == InitScorer /\ [][ScorerNext]_vars

\* parse_health_data(data_records, device_id) called on the whole history of
\* "cow-1" outside the for loop, with or without a device id; the result is
\* kept in hm and the call of update_animal_status_if_critical it makes, if
\* any, in upd_ret
ParseHealthDataCall(c, device_id) ==
    /\ dash[c].pc = "sleep"
    /\ LET hm == ParseHealthData(data["cow-1"])
       IN  IF device_id # None /\ WantsUpdate(hm, device_id[1])
           THEN \E ok \in BOOLEAN :
                  LET d == device_id[1]
                      prior == IF ok /\ animal[d].exists THEN animal[d].is_critical ELSE None
                      committed == ok /\ animal[d].exists
                  IN  /\ animal' = IF committed THEN [animal EXCEPT ![d] = CommittedRow(@)]
                                    ELSE animal
                      /\ dash' = [dash EXCEPT ![c] =
                                     DbClosed(DbOpened(
                                         [@ EXCEPT !.hm = hm, !.direct = Some(device_id),
                                                   !.upd_ret = Returned(d, prior, ~ok,
                                                       UpdateReturns(prior, committed))]))]
           ELSE /\ animal' = animal
                /\ dash' = [dash EXCEPT ![c] =
                               [@ EXCEPT !.hm = hm, !.direct = Some(device_id),
                                         !.upd_ret = None]]
    /\ UNCHANGED << data, dev >>

\* histories of RecNormal and RecCritical of these lengths, and the empty one
CallLengths == {3, 5, 7, 9}
CallHistories == {<< >>} \cup UNION { [1..n -> {RecNormal, RecCritical}] : n \in CallLengths }

\* The scorer called on whole histories of "cow-1", beside the ticks of an
\* observer whose first snapshot has gone out.
InitCall ==
    /\ animal = [d \in DeviceIds |-> IF d = "cow-1" THEN Row(Some("active"), None) ELSE NoRow]
    /\ data \in { [d \in DeviceIds |-> IF d = "cow-1" THEN h ELSE << >>] : h \in CallHistories }
    /\ dash = [c \in Dashboards |->
                 IF c = "obs1"
                 THEN [DashStart EXCEPT !.pc = "sleep", !.initial_sent = TRUE, !.sent_any = TRUE]
                 ELSE DashOff]
    /\ dev = [s \in Sessions |-> DevOff]

CallNext ==
    \/ ScorerNext
    \/ \E c \in Dashboards, device_id \in {None, Some(""), Some("cow-1")} :
          ParseHealthDataCall(c, device_id)

SpecCall == InitCall /\ [][CallNext]_vars

(***************************************************************************)
(* Properties.                                                             *)
(***************************************************************************)
\* every entry of a response has null health fields
NullHealth(list) ==
    \A i \in 1..Len(list) :
        list[i].overall_health_percentage = None /\ list[i].health_status = None

\* this step sends the snapshot of observer c
SnapshotSent(c) == dash[c].pc = "send" /\ dash'[c].pc = "sleep"

\* the response holds an entry with null health fields for a device whose
\* fetched records score critical
NullEntryOfCriticalDevice(c) ==
    \E i \in 1..Len(dash[c].list) :
        /\ dash[c].list[i].health_status = None
        /\ ParseHealthData(dash[c].animals_data.recs[dash[c].list[i].animal_id]).health_status
               = Some("critical")

\* C1: the first snapshot sent on a dashboard connection has null
\* overall_health_percentage and health_status in every entry and
\* total_critical = 0, whatever records are stored.
C1_FirstSnapshotNull ==
    [][\A c \in Dashboards :
          (SnapshotSent(c) /\ ~dash[c].sent_any) =>
              NullHealth(dash[c].list) /\ dash[c].total_critical = 0]_vars

C1_Witness ==
    \E c \in Dashboards :
        dash[c].pc = "sleep" /\ dash[c].sent_any /\ NullEntryOfCriticalDevice(c)

\* C2: initial_sent changes (from False to True) exactly in the step that
\* sends a snapshot while it is False; a tick that ends in the except branch
\* leaves it False, and a snapshot sent while it is False has null health fields.
C2_SteadyExactlyAfterFirstSend ==
    [][\A c \in Dashboards :
          /\ (dash'[c].initial_sent # dash[c].initial_sent)
                 <=> (SnapshotSent(c) /\ ~dash[c].initial_sent)
          /\ (SnapshotSent(c) /\ ~dash[c].initial_sent) => NullHealth(dash[c].list)]_vars

\* a snapshot with null health fields went out after a tick that ended with an error frame
C2_Witness ==
    \E c \in Dashboards :
        /\ dash[c].pc = "sleep" /\ dash[c].err_sent /\ dash[c].sent_any
        /\ NullEntryOfCriticalDevice(c)

\* the devices of a fetch that get an entry, in order
Included(fetched) ==
    SelectSeq(KeysInOrder(DeviceOrder, fetched.keys), LAMBDA d : fetched.recs[d] # << >>)

\* the entry that reports the Health Scorer's output for the window of device d
ScoredEntry(d, data_records) ==
    LET hm == ParseHealthData(Take(data_records, WindowSize))
    IN  [animal_id |-> d,
         overall_health_percentage |-> hm.overall_health_percentage,
         health_status |-> hm.health_status]

\* C3: initial_sent never goes back to False, and every response built while
\* it is True holds, for every fetched device with records, the scorer's
\* output on that device's window.
C3_SteadyScoresEveryDevice ==
    [][\A c \in Dashboards :
          /\ dash[c].initial_sent => dash'[c].initial_sent
          /\ (dash[c].pc = "send" /\ dash[c].initial_sent) =>
                 LET inc == Included(dash[c].animals_data)
                 IN  dash[c].list =
                         [i \in 1..Len(inc) |->
                             ScoredEntry(inc[i], dash[c].animals_data.recs[inc[i]])]]_vars

\* a snapshot with two scored entries went out
C3_Witness ==
    \E c \in Dashboards :
        /\ dash[c].pc = "sleep" /\ dash[c].initial_sent /\ Len(dash[c].list) = 2
        /\ dash[c].list[1].health_status = Some("normal")
        /\ dash[c].list[2].health_status = Some("critical")

\* C4: a Device whose is_critical is true keeps is_critical = true across
\* every step: frames, ticks, status updates and create_animal calls.
C4_CriticalFlagNeverCleared ==
    [][\A d \in DeviceIds :
          (animal[d].exists /\ animal[d].is_critical = Some(TRUE)) =>
              (animal'[d].exists /\ animal'[d].is_critical = Some(TRUE))]_vars

\* the flag is set, the status was changed afterwards, and a frame was stored
C4_Witness ==
    \E d \in DeviceIds :
        /\ animal[d].is_critical = Some(TRUE) /\ animal[d].status = Some("deactive")
        /\ data[d] # << >> /\ data[d][1] # RecBpNotDict

C6_ScoringLeavesStatus ==
    [][dash' # dash =>
          /\ data' = data
          /\ \A d \in DeviceIds :
                /\ animal'[d].exists = animal[d].exists
                /\ animal'[d].status = animal[d].status]_vars

\* a flag update committed for an active device
C6_Witness ==
    \E c \in Dashboards :
        /\ dash[c].upd_ret # None /\ dash[c].upd_ret[1].ret
        /\ animal[dash[c].upd_ret[1].device].status = Some("active")
        /\ animal[dash[c].upd_ret[1].device].is_critical = Some(TRUE)

\* C7: with two broadcast loops updating the flag of the same device, once an
\* update has committed the device's is_critical is true in every later state,
\* and a loop ends only because its own observer is gone.
C7_ConcurrentUpdatesSafe ==
    \A c \in Dashboards :
        /\ (dash[c].upd_ret # None /\ dash[c].upd_ret[1].ret) =>
               animal[dash[c].upd_ret[1].device].is_critical = Some(TRUE)
        /\ dash[c].pc = "done" => dash[c].ws = "peer_closed"

\* both loops read the row before either committed, and both committed
C7_Witness ==
    /\ \A c \in Dashboards :
          /\ dash[c].upd_ret # None /\ dash[c].upd_ret[1].ret
          /\ dash[c].upd_ret[1].device = "cow-1" /\ dash[c].upd_ret[1].prior = None
    /\ animal["cow-1"].is_critical = Some(TRUE)

\* C8: a call of the flag update for an existing device that the Store does
\* not fail returns True, also when the flag was already true, and after a
\* call that committed or that found the flag true, is_critical is true.
C8_UpdateIdempotent ==
    \A c \in Dashboards :
        dash[c].upd_ret # None =>
            LET r == dash[c].upd_ret[1]
            IN  /\ ~r.failed => r.ret
                /\ (r.ret \/ r.prior = Some(TRUE)) => animal[r.device].is_critical = Some(TRUE)

\* a second call, on a flag that was already true, returned True
C8_Witness ==
    \E c \in Dashboards :
        /\ dash[c].upd_ret # None
        /\ dash[c].upd_ret[1].prior = Some(TRUE) /\ dash[c].upd_ret[1].ret

\* C9 as stated: a connection whose id maps to no Device ends with exactly
\* one error frame sent and close code 1008, without entering the receive loop.
C9_UnknownDeviceOneFrameAnd1008 ==
    \A s \in Sessions :
        (dev[s].lookup = "unknown" /\ dev[s].pc \in {"done", "closed"}) =>
            /\ dev[s].n_err = 1
            /\ dev[s].close_code = Some(PolicyViolation)
            /\ ~dev[s].entered_loop

\* C9 (amended): a connection whose id maps to no Device never enters the
\* receive loop, persists no record and attempts exactly one error frame; if
\* the device has not closed the connection first, exactly one error frame is
\* sent and the connection is closed with code 1008.
C9_UnknownDeviceRejected ==
    [][\A s \in Sessions :
          /\ dev'[s].lookup = "unknown" =>
                /\ ~dev'[s].entered_loop
                /\ dev'[s].pc \in {"nf_close", "done", "closed"}
                /\ dev'[s].n_err + dev'[s].closed_sends = 1
                /\ (dev'[s].pc \in {"done", "closed"} /\ dev'[s].ws # "peer_closed") =>
                       (dev'[s].n_err = 1 /\ dev'[s].close_code = Some(PolicyViolation))
          /\ (dev[s].lookup = "unknown" \/ dev'[s].lookup = "unknown") => data' = data]_vars

C9_Witness ==
    \E s \in Sessions :
        /\ dev[s].lookup = "unknown" /\ dev[s].pc = "closed"
        /\ dev[s].n_err = 1 /\ dev[s].close_code = Some(PolicyViolation)
        /\ dev[s].ws = "server_closed"

\* C10: an undecodable frame on an open connection persists nothing, is
\* answered by exactly one error frame, and the session is back at receive.
C10_UndecodableFrameAnswered ==
    [][\A s \in Sessions :
          /\ (dev[s].pc = "recv" /\ dev'[s].pc = "json_err") =>
                 (data' = data /\ dev'[s].n_err = dev[s].n_err)
          /\ (dev[s].pc = "json_err" /\ dev[s].ws = "open"
                  /\ dev'[s] # dev[s] /\ dev'[s].ws = "open") =>
                 /\ dev'[s].pc = "recv"
                 /\ dev'[s].n_err = dev[s].n_err + 1
                 /\ data' = data]_vars

\* a frame was stored after an undecodable one had been answered
C10_Witness ==
    \E s \in Sessions :
        /\ dev[s].stored_after /\ dev[s].n_err = 1 /\ dev[s].pc = "recv"
        /\ data[dev[s].device_id[1]] # << >>

\* C11 read without a condition on the connection: every failure of
\* manage_data is followed by one error frame and the return to receive.
C11_PersistFailureAlwaysAnswered ==
    [][\A s \in Sessions :
          (dev[s].pc = "persist_err" /\ dev'[s].pc # "persist_err") =>
              (dev'[s].pc = "recv" /\ dev'[s].n_err = dev[s].n_err + 1)]_vars

\* C11 (amended): when manage_data fails (a cast error or a Store error) the
\* records are unchanged; if the connection is still open when the error frame
\* is sent, exactly one error frame goes out and the session is back at
\* receive; if the device has closed it meanwhile, the send fails, no frame
\* goes out and the session leaves the loop.  No record changes either way.
C11_PersistFailureRolledBack ==
    [][\A s \in Sessions :
          /\ (dev[s].pc = "recv" /\ dev'[s].pc = "persist_err") =>
                 (data' = data /\ dev'[s].n_err = dev[s].n_err)
          /\ (dev[s].pc = "persist_err" /\ dev'[s].pc # "persist_err") =>
                 /\ data' = data
                 /\ IF dev[s].ws = "open"
                    THEN dev'[s].pc = "recv" /\ dev'[s].n_err = dev[s].n_err + 1
                    ELSE /\ dev'[s].pc = "done" /\ dev'[s].n_err = dev[s].n_err
                         /\ dev'[s].closed_sends = dev[s].closed_sends + 1]_vars

\* a failure of manage_data was answered on an open connection, nothing stored
C11_Witness ==
    \E s \in Sessions :
        /\ dev[s].persist_err_seen /\ dev[s].n_err = 1 /\ dev[s].pc = "recv"
        /\ dev[s].ws = "open"
        /\ data[dev[s].device_id[1]] = << >>

\* C12: once receive_json has reported that the connection is closed, the
\* session attempts no send on it.
C12_NoSendAfterClosure ==
    [][\A s \in Sessions :
          dev[s].pc = "disc_err" =>
              (dev'[s].closed_sends = dev[s].closed_sends /\ dev'[s].n_err = dev[s].n_err)]_vars

\* everything of a loop's state but its position and its connection
LoopData(st) == [st EXCEPT !.pc = "", !.ws = ""]

\* C13: a snapshot send that fails because the observer is gone ends the
\* loop: the step goes to the end of get_status, and from there on the loop
\* fetches nothing, scores nothing, updates no flag and sends nothing.
C13_FailedSendTerminates ==
    [][\A c \in Dashboards :
          /\ (dash[c].pc = "send" /\ dash[c].ws # "open" /\ dash'[c] # dash[c]) =>
                 dash'[c].pc = "done"
          /\ dash[c].pc \in {"done", "closed"} =>
                 /\ dash'[c].pc \in {"done", "closed"}
                 /\ LoopData(dash'[c]) = LoopData(dash[c])
                 /\ dash'[c] # dash[c] => (animal' = animal /\ data' = data)]_vars

\* the send of a scored snapshot failed and the route has closed
C13_Witness ==
    \E c \in Dashboards :
        /\ dash[c].pc = "closed" /\ dash[c].ws = "peer_closed"
        /\ dash[c].initial_sent /\ dash[c].list # << >>
        /\ dash[c].list[1].health_status # None

\* this step starts a tick of observer c
TickStarts(c) == dash[c].pc \in {"start", "sleep"} /\ dash'[c].pc \in {"loop", "send"}

\* the response of st is the empty snapshot
EmptySnapshot(st) ==
    Response(st) = [data |-> << >>, total |-> 0, total_critical |-> 0,
                    total_active |-> 0, total_device |-> 0]

\* C14: a tick whose fleet query hits a Store failure builds the empty
\* snapshot (no entry, the four counters zero) whatever the Store holds, its
\* send on an open connection leads to the sleep and not to the end of the
\* loop, and from the sleep the next fetch is enabled.
C14_StoreFailureEmptySnapshot ==
    [][\A c \in Dashboards :
          /\ (TickStarts(c) /\ dash'[c].fetch_failed) =>
                 (dash'[c].pc = "send" /\ EmptySnapshot(dash'[c]))
          /\ (dash[c].pc = "send" /\ dash[c].fetch_failed) => EmptySnapshot(dash[c])
          /\ (dash[c].pc = "send" /\ dash[c].fetch_failed /\ dash[c].ws = "open"
                  /\ dash'[c] # dash[c] /\ dash'[c].ws = "open") =>
                 dash'[c].pc = "sleep"
          /\ (dash[c].pc = "sleep" /\ dash[c].fetch_failed) => ENABLED DashFetch(c)]_vars

\* the empty snapshot went out although an active device has records
C14_Witness ==
    \E c \in Dashboards :
        /\ dash[c].pc = "sleep" /\ dash[c].fetch_failed /\ dash[c].sent_any
        /\ dash[c].list = << >>
        /\ \E d \in DeviceIds : animal[d].status = Some("active") /\ data[d] # << >>

\* C15: the devices a tick fetches had status "active" when the tick queried
\* the Store, every entry of the response belongs to a fetched device, and no
\* two entries belong to the same device.
C15_OnlyActiveDevicesOnce ==
    [][\A c \in Dashboards :
          /\ TickStarts(c) =>
                 \A d \in dash'[c].animals_data.keys :
                     animal[d].exists /\ animal[d].status = Some("active")
          /\ LET st == dash'[c]
             IN  /\ \A i \in 1..Len(st.list) : st.list[i].animal_id \in st.animals_data.keys
                 /\ \A i, j \in 1..Len(st.list) :
                        i # j => st.list[i].animal_id # st.list[j].animal_id]_vars

\* a snapshot with one entry went out; that device was deactivated since, and
\* the other device, never activated, has records and no entry
C15_Witness ==
    \E c \in Dashboards : \E d, e \in DeviceIds :
        /\ d # e
        /\ dash[c].pc = "sleep" /\ dash[c].sent_any
        /\ Len(dash[c].list) = 1 /\ dash[c].list[1].animal_id = d
        /\ animal[d].status = Some("deactive")
        /\ animal[e].exists /\ animal[e].status = None /\ data[e] # << >>

\* C16: the iteration for a fetched device without records adds no entry,
\* changes no counter and goes on with the loop or the send; in the response
\* every entry belongs to a device with records and total, total_active and
\* total_device count exactly the fetched devices with records.
C16_DeviceWithoutRecordsLeftOut ==
    [][\A c \in Dashboards :
          /\ (dash[c].pc = "loop" /\ dash'[c].todo # dash[c].todo
                  /\ dash[c].animals_data.recs[Head(dash[c].todo)] = << >>) =>
                 /\ dash'[c].pc \in {"loop", "send"}
                 /\ Response(dash'[c]) = Response(dash[c])
          /\ dash[c].pc = "send" =>
                 LET r == Response(dash[c])
                     n == Cardinality({ d \in dash[c].animals_data.keys :
                                          dash[c].animals_data.recs[d] # << >> })
                 IN  /\ \A i \in 1..Len(r.data) :
                            dash[c].animals_data.recs[r.data[i].animal_id] # << >>
                     /\ r.total = n /\ r.total_active = n /\ r.total_device = n]_vars

\* a snapshot went out with one entry while another fetched device had no record
C16_Witness ==
    \E c \in Dashboards :
        /\ dash[c].pc = "sleep" /\ dash[c].sent_any /\ ~dash[c].err_sent
        /\ \E d \in dash[c].animals_data.keys : dash[c].animals_data.recs[d] = << >>
        /\ Len(dash[c].list) = 1 /\ dash[c].total_device = 1 /\ dash[c].total_active = 1

\* C17: in the response that is sent total, total_active and total_device
\* equal the number of entries, and total_critical is the number of entries
\* whose health_status is "critical".
C17_CountersMatchEntries ==
    \A c \in Dashboards :
        dash[c].pc = "send" =>
            LET r == Response(dash[c])
            IN  /\ r.total = Len(r.data)
                /\ r.total_active = Len(r.data)
                /\ r.total_device = Len(r.data)
                /\ r.total_critical =
                       Cardinality({ i \in 1..Len(r.data) :
                                       r.data[i].health_status = Some("critical") })
                /\ r.total_critical <= r.total

\* a snapshot with a warning entry and a critical entry went out
C17_Witness ==
    \E c \in Dashboards :
        /\ dash[c].pc = "sleep" /\ dash[c].sent_any /\ Len(dash[c].list) = 2
        /\ dash[c].list[1].health_status = Some("warning")
        /\ dash[c].list[2].health_status = Some("critical")
        /\ dash[c].total_critical = 1 /\ dash[c].total_device = 2

\* C18: when "cow-1" is active and its records are the five stored for its
\* five frames {"heart_rate": 180}, a tick that follows a snapshot which
\* reported the device reports for it health_status "critical" and
\* overall_health_percentage 30.0, and the is_critical update is requested.
C18_HeartRate180Critical ==
    \A c \in Dashboards :
        (/\ dash[c].pc = "send" /\ dash[c].initial_sent /\ ~dash[c].fetch_failed
         /\ "cow-1" \in dash[c].reported
         /\ Len(dash[c].animals_data.recs["cow-1"]) = WindowSize) =>
            /\ dash[c].list = << [animal_id |-> "cow-1",
                                  overall_health_percentage |-> Some(3000),
                                  health_status |-> Some("critical")] >>
            /\ "cow-1" \in dash[c].requested

\* C19: the first snapshot of a connection that holds an entry for a device
\* reports null health fields for that device.
C19_FirstReportIsNull ==
    [][\A c \in Dashboards :
          SnapshotSent(c) =>
              \A i \in 1..Len(dash[c].list) :
                  dash[c].list[i].animal_id \notin dash[c].reported =>
                      /\ dash[c].list[i].overall_health_percentage = None
                      /\ dash[c].list[i].health_status = None]_vars

\* C19 (amended): a device reported for the first time on a connection gets
\* null health fields only when that snapshot is the first one the connection
\* sends; when the connection has sent a snapshot before (the device became
\* active or got its first record later, or the first snapshot was empty) its
\* first entry holds the scorer's output on its window.
C19_FirstReportNullOnlyInFirstSnapshot ==
    [][\A c \in Dashboards :
          SnapshotSent(c) =>
              \A i \in 1..Len(dash[c].list) :
                  dash[c].list[i].animal_id \notin dash[c].reported =>
                      IF ~dash[c].sent_any
                      THEN /\ dash[c].list[i].overall_health_percentage = None
                           /\ dash[c].list[i].health_status = None
                      ELSE dash[c].list[i] =
                               ScoredEntry(dash[c].list[i].animal_id,
                                   dash[c].animals_data.recs[dash[c].list[i].animal_id])]_vars

\* a connection that has reported one device is about to send the first
\* entry of another one, scored critical
C19_Witness ==
    \E c \in Dashboards :
        /\ dash[c].pc = "send" /\ dash[c].ws = "open" /\ dash[c].sent_any
        /\ dash[c].reported # {}
        /\ \E i \in 1..Len(dash[c].list) :
              /\ dash[c].list[i].animal_id \notin dash[c].reported
              /\ dash[c].list[i].health_status = Some("critical")

\* C20: after the observer has gone the loop starts at most one further
\* tick, and its next send attempt, of a snapshot or of an error frame, ends
\* the loop.
C20_ClosureObservedAtNextSend ==
    [][\A c \in Dashboards :
          /\ dash'[c].ticks_after_close <= 1
          /\ (dash[c].pc \in {"send", "err_send"} /\ dash[c].ws # "open"
                  /\ dash'[c] # dash[c]) =>
                 dash'[c].pc = "done"]_vars

\* the observer went away during the sleep; the loop ran one more tick with
\* an entry, failed to send it, and the route closed
C20_Witness ==
    \E c \in Dashboards :
        /\ dash[c].pc = "closed" /\ dash[c].ws = "peer_closed"
        /\ dash[c].ticks_after_close = 1 /\ dash[c].list # << >>

\* C21: every Store session the two loops open (fleet query, record insert,
\* flag update, device lookup) is closed on every way out: a loop holds a
\* session only between the query and the commit of a flag update, and then
\* exactly one; none is open while an ingestion session is parked at receive,
\* while the broadcast loop sleeps, or after either loop has ended.
C21_SessionsAlwaysClosed ==
    /\ \A c \in Dashboards :
         /\ dash[c].db_open = IF dash[c].pc = "upd_commit" THEN 1 ELSE 0
         /\ dash[c].pc \in {"sleep", "done", "closed"} => dash[c].db_open = 0
    /\ \A s \in Sessions :
         /\ dev[s].db_open = 0
         /\ dev[s].pc \in {"recv", "done", "closed"} => dev[s].db_open = 0

\* the loop sleeps after a tick whose flag update hit a Store failure, and the
\* ingestion session is back at receive after a failed insert
C21_Witness ==
    /\ dash["obs1"].pc = "sleep"
    /\ dash["obs1"].upd_ret # None /\ dash["obs1"].upd_ret[1].failed
    /\ dash["obs1"].upd_ret[1].prior # None
    /\ dev["s1"].pc = "recv" /\ dev["s1"].persist_err_seen
    /\ dash["obs1"].db_open = 0 /\ dev["s1"].db_open = 0

\* C22: the teardown of both routes is idempotent: the close in the route's
\* finally block ends the route without raising, also when the connection is
\* already closed, by the peer or by the earlier close with code 1008, and it
\* leaves such a connection, and its close code, as they were.
C22_TeardownIdempotent ==
    [][ /\ \A c \in Dashboards :
             dash[c].pc = "done" /\ dash'[c].pc # "done" =>
                 /\ dash'[c].pc = "closed"
                 /\ dash'[c].ws = IF dash[c].ws = "open" THEN "server_closed" ELSE dash[c].ws
        /\ \A s \in Sessions :
             dev[s].pc = "done" /\ dev'[s].pc # "done" =>
                 /\ dev'[s].pc = "closed"
                 /\ dev'[s].ws = IF dev[s].ws = "open" THEN "server_closed" ELSE dev[s].ws
                 /\ dev'[s].close_code = dev[s].close_code ]_vars

\* the ingestion route ended after its close(1008), the dashboard route after
\* the observer went away
C22_Witness ==
    /\ dev["s1"].pc = "closed" /\ dev["s1"].close_code = Some(PolicyViolation)
    /\ dev["s1"].ws = "server_closed"
    /\ dash["obs1"].pc = "closed" /\ dash["obs1"].ws = "peer_closed"

\* the positions inside the receive loop of handle_device_data
InLoop(st) == st.pc \in {"recv", "json_err", "exc_err", "persist_err", "disc_err"}

C24_IngestionIgnoresStatus ==
    [][ /\ \A s \in Sessions :
             /\ (dev[s].pc = "start" /\ dev'[s].pc # "start"
                    /\ dev[s].id = Some("cow-1") /\ animal["cow-1"].exists
                    /\ dev'[s].lookup # "error")
                  => dev'[s].pc = "recv" /\ dev'[s].device_id = Some("cow-1")
             /\ (dev[s].pc = "recv" /\ dev[s].ws = "open"
                    /\ Len(data[dev[s].device_id[1]]) < MaxRecords)
                  => ENABLED (DevReceive(s) /\ data' # data)
        /\ \A c \in Dashboards :
             (dash[c].pc \in {"start", "sleep"} /\ dash'[c].pc \notin {"start", "sleep"})
                  => \A d \in dash'[c].animals_data.keys : animal[d].status = Some("active")
      ]_vars

\* a device that never was active (status null) has a record stored by its
\* session, and an observer got a snapshot without it from a fetch that worked
C24_Witness ==
    /\ animal["cow-1"].exists /\ animal["cow-1"].status = None
    /\ dev["s1"].pc = "recv" /\ dev["s1"].lookup = "found"
    /\ data["cow-1"] # << >> /\ data["cow-1"][1] \in InsertedRecords(Frame("object", None, Some(Num(1800))))
    /\ dash["obs1"].pc = "sleep" /\ dash["obs1"].sent_any /\ ~dash["obs1"].fetch_failed
    /\ dash["obs1"].list = << >>

\* C25: every VitalRecord that is persisted carries the device_id resolved
\* when the connection started, which is the id of the connection and the id
\* of an existing Device and stays the same for the whole session: a step that
\* changes the table "data" is the receive of a session at that device, adds
\* exactly one record, at the head of that device's history, and leaves the
\* histories of all other devices alone.
C25_RecordsCarryResolvedDevice ==
    [][ /\ \A s \in Sessions :
             dev[s].device_id # None =>
                 /\ dev'[s].device_id = dev[s].device_id
                 /\ dev[s].device_id = dev[s].id
                 /\ animal[dev[s].device_id[1]].exists
        /\ data' # data =>
             \E s \in Sessions :
                 LET d == dev[s].device_id[1]
                 IN  /\ dev[s].pc = "recv" /\ dev[s].device_id # None
                     /\ animal[d].exists
                     /\ Len(data'[d]) = Len(data[d]) + 1
                     /\ Tail(data'[d]) = data[d]
                     /\ \A e \in DeviceIds \ {d} : data'[e] = data[e]
      ]_vars

\* a record was stored for "cow-1" by its session while the other existing
\* device has none
C25_Witness ==
    \E s \in Sessions :
        /\ dev[s].pc = "recv" /\ dev[s].device_id = Some("cow-1")
        /\ Len(data["cow-1"]) = 1 /\ data[""] = << >> /\ animal[""].exists

\* C26: a VitalRecord, once written, is never updated or deleted: whatever a
\* step does (the ingestion of a later frame, a tick of the broadcast loop,
\* scoring, a flag update), the history of every device before the step is
\* still there after it, unchanged and in the same order, behind at most one
\* new record.
C26_RecordsImmutable ==
    [][\A d \in DeviceIds :
          \E k \in {0, 1} :
              /\ Len(data'[d]) = Len(data[d]) + k
              /\ SubSeq(data'[d], k + 1, Len(data'[d])) = data[d]]_vars

\* a full window was stored frame by frame while the observer got snapshots
\* and the flag of the device was set
C26_Witness ==
    /\ Len(data["cow-1"]) = WindowSize
    /\ data["cow-1"][1] # data["cow-1"][WindowSize]
    /\ animal["cow-1"].is_critical = Some(TRUE)
    /\ dash["obs1"].sent_any

\* observer c has scored the history of "cow-1" in this tick: st.hm is what
\* parse_health_data returned for it
ScoredCow(c) ==
    /\ dash[c].pc = "send" /\ ~dash[c].fetch_failed
    /\ Len(dash[c].list) = 1 /\ dash[c].list[1].animal_id = "cow-1"

\* the averages and metric scores of the window of "cow-1"
CowScores == WindowScores(Take(data["cow-1"], WindowSize))

\* C27: a window for which both blood-pressure averages exist and whose
\* averaged systolic exceeds 140 or whose averaged diastolic exceeds 90 gets
\* blood-pressure score 30.
C27_HighBloodPressureScores30 ==
    \A c \in Dashboards :
        (ScoredCow(c) /\ CowScores.blood_pressure # None) =>
            LET bp == CowScores.blood_pressure[1]
            IN  (bp.systolic > 1400 \/ bp.diastolic > 900) => CowScores.bp_score = << 30 >>

\* C28 as stated: the heart-rate score is fixed by the band that contains the
\* arithmetic mean of the window's heart rates: 100 in [60,100], 70 in
\* (100,120], 30 above 120, 50 below 60.
C28_HeartRateBandOfMean ==
    \A c \in Dashboards :
        (ScoredCow(c) /\ CowScores.heart_rates # << >>) =>
            LET total == SumSeq(CowScores.heart_rates)
                n == Len(CowScores.heart_rates)
            IN  CowScores.hr_score =
                    << IF 60 * n <= total /\ total <= 100 * n THEN 100
                       ELSE IF 100 * n < total /\ total <= 120 * n THEN 70
                       ELSE IF total > 120 * n THEN 30
                       ELSE 50 >>

\* C28 amended: the heart-rate score is fixed by the band that contains the
\* mean rounded to the nearest integer, ties to the even one, which is also
\* the heart_rate the scorer returns: 100 for 60..100, 70 for 101..120, 30
\* above 120, 50 below 60.
C28_HeartRateBandOfRoundedMean ==
    \A c \in Dashboards :
        (ScoredCow(c) /\ CowScores.heart_rates # << >>) =>
            LET total == SumSeq(CowScores.heart_rates)
                n == Len(CowScores.heart_rates)
                q == total \div n
                rounded == IF 2 * (total % n) < n THEN q
                           ELSE IF 2 * (total % n) > n THEN q + 1
                           ELSE IF q % 2 = 0 THEN q ELSE q + 1
            IN  /\ dash[c].hm.heart_rate = Some(rounded)
                /\ CowScores.hr_score =
                       << IF 60 <= rounded /\ rounded <= 100 THEN 100
                          ELSE IF 101 <= rounded /\ rounded <= 120 THEN 70
                          ELSE IF rounded > 120 THEN 30
                          ELSE 50 >>

\* heart rates 59 and 60 (mean 59.5, reported as 60) score 100
C28_Witness ==
    \E c \in Dashboards :
        /\ ScoredCow(c)
        /\ CowScores.heart_rates \in { << 59, 60 >>, << 60, 59 >> }
        /\ dash[c].hm.heart_rate = Some(60) /\ CowScores.hr_score = << 100 >>

\* C29: the body-temperature score is fixed by the band that contains the
\* arithmetic mean, not rounded, of the window's body temperatures: 100 in
\* [36.5,37.5], 70 in (37.5,38.0], 30 above 38.0, 50 below 36.5 (a NaN mean
\* lies in no band).
C29_TemperatureBandOfMean ==
    \A c \in Dashboards :
        (ScoredCow(c) /\ CowScores.body_temps # << >>
            /\ SumTemps(CowScores.body_temps) # NaN) =>
            LET total == SumSeq(CowScores.body_temps)
                n == Len(CowScores.body_temps)
            IN  /\ 365 * n <= total /\ total <= 375 * n => CowScores.temp_score = << 100 >>
                /\ 375 * n < total /\ total <= 380 * n => CowScores.temp_score = << 70 >>
                /\ total > 380 * n => CowScores.temp_score = << 30 >>
                /\ total < 365 * n => CowScores.temp_score = << 50 >>

\* temperatures 38.0 and 38.1 (mean 38.05, reported as 38.0) score 30
C29_Witness ==
    \E c \in Dashboards :
        /\ ScoredCow(c)
        /\ CowScores.body_temps \in { << 380, 381 >>, << 381, 380 >> }
        /\ dash[c].hm.body_temp = Some(380) /\ CowScores.temp_score = << 30 >>

\* the metric scores computed for the window of "cow-1", in the order in
\* which parse_health_data appends them
CowScoreList == CowScores.bp_score \o CowScores.temp_score \o CowScores.hr_score

\* C30 as stated: overall_health_percentage is the unweighted mean of exactly
\* the metric scores that were computed.
C30_PercentageIsTheMean ==
    \A c \in Dashboards :
        (ScoredCow(c) /\ dash[c].hm.overall_health_percentage # None) =>
            dash[c].hm.overall_health_percentage[1] * Len(CowScoreList)
                = 100 * SumSeq(CowScoreList)

\* C30 amended: overall_health_percentage is the unweighted mean of exactly
\* the metric scores that were computed, rounded to two decimals;
\* health_status is "normal" if the percentage is >= 80, "warning" if it is
\* >= 50 and < 80, "critical" if it is < 50, for the rounded percentage and
\* for the mean alike; both are absent when no metric is scorable (or the
\* scorer fails), and the entry of the snapshot carries the two outputs.
C30_PercentageIsTheRoundedMean ==
    \A c \in Dashboards :
        ScoredCow(c) =>
            LET hm == dash[c].hm
                n == Len(CowScoreList)
                total == SumSeq(CowScoreList)
            IN  /\ (n = 0 \/ CowScores.raises) =>
                       hm.overall_health_percentage = None /\ hm.health_status = None
                /\ (n > 0 /\ ~CowScores.raises) =>
                       /\ hm.overall_health_percentage # None /\ hm.health_status # None
                       /\ LET percentage == hm.overall_health_percentage[1]
                              diff == percentage * n - 100 * total
                          IN  /\ 2 * diff <= n /\ -2 * diff <= n
                              /\ hm.health_status =
                                     Some(IF percentage >= 8000 THEN "normal"
                                          ELSE IF percentage >= 5000 THEN "warning"
                                          ELSE "critical")
                              /\ hm.health_status[1] = "normal" <=> total >= 80 * n
                              /\ hm.health_status[1] = "critical" <=> total < 50 * n
                /\ dash[c].list[1].overall_health_percentage = hm.overall_health_percentage
                /\ dash[c].list[1].health_status = hm.health_status

\* scores 30, 100 and 100: the mean 76.666... is reported as 76.67, "warning"
C30_Witness ==
    \E c \in Dashboards :
        /\ ScoredCow(c) /\ SumSeq(CowScoreList) = 230 /\ Len(CowScoreList) = 3
        /\ dash[c].hm.overall_health_percentage = Some(7667)
        /\ dash[c].hm.health_status = Some("warning")

\* this step is a call of parse_health_data outside the for loop
DirectCall(c) ==
    dash[c].pc = "sleep" /\ dash'[c].pc = "sleep" /\ dash'[c] # dash[c]

\* this step is the iteration of the for loop that scores "cow-1"
LoopCall(c) ==
    dash[c].pc = "loop" /\ dash'[c].pc # "loop" /\ data["cow-1"] # << >>

\* C31: the scorer uses only the first min(5, n) records of its newest-first
\* input: called on a history of more than 5 records it returns what it
\* returns for the first 5 of them, called on fewer it uses them all; and the
\* tick of the broadcast loop scores the 5 most recent of the up to 8 records
\* fetched, which are the 5 newest of the history.
C31_OnlyFirstFiveRecordsUsed ==
    [][\A c \in Dashboards :
          LET history == data["cow-1"]
              first == SubSeq(history, 1, IF Len(history) < 5 THEN Len(history) ELSE 5)
          IN  /\ DirectCall(c) => dash'[c].hm = ParseHealthData(first)
              /\ LoopCall(c) =>
                     /\ dash'[c].hm = ParseHealthData(first)
                     /\ Len(dash[c].animals_data.recs["cow-1"])
                            = (IF Len(history) < 8 THEN Len(history) ELSE 8)]_vars

\* a history of 7 records, the 5 newest normal and the 2 oldest critical, was
\* scored 100.0 "normal"
C31_Witness ==
    \E c \in Dashboards :
        /\ dash[c].pc = "sleep" /\ Len(data["cow-1"]) = 7
        /\ \A i \in 1..5 : data["cow-1"][i] = RecNormal
        /\ data["cow-1"][6] = RecCritical /\ data["cow-1"][7] = RecCritical
        /\ dash[c].hm.overall_health_percentage = Some(10000)
        /\ dash[c].hm.health_status = Some("normal")

\* the window of "cow-1" that a tick scores
CowWindow == Take(data["cow-1"], WindowSize)

\* C32: each metric is averaged over the records of the window in which it is
\* present, and only over them: the reported heart rate and body temperature
\* are the (rounded) means of the values present, a metric has a score
\* exactly when some record of the window has it, and the percentage is the
\* mean of the scores present; an absent value is never counted as zero.
C32_MetricsAveragedOverPresentValues ==
    \A c \in Dashboards :
        (ScoredCow(c) /\ ~CowScores.raises) =>
            LET hm == dash[c].hm
                hasHr == SelectSeq(CowWindow, LAMBDA r : r.heart_rate # None)
                hrTotal == SumSeq([i \in 1..Len(hasHr) |-> hasHr[i].heart_rate[1]])
                hasTemp == SelectSeq(CowWindow, LAMBDA r : r.body_temp # None)
                tempTotal == SumSeq([i \in 1..Len(hasTemp) |-> hasTemp[i].body_temp[1]])
                hasBp == SelectSeq(CowWindow, LAMBDA r : r.blood_pressure # None)
                present == (IF hasBp # << >> THEN 1 ELSE 0) + (IF hasTemp # << >> THEN 1 ELSE 0)
                               + (IF hasHr # << >> THEN 1 ELSE 0)
            IN  /\ hasHr # << >> =>
                       /\ hm.heart_rate # None
                       /\ 2 * (hm.heart_rate[1] * Len(hasHr) - hrTotal) <= Len(hasHr)
                       /\ 2 * (hrTotal - hm.heart_rate[1] * Len(hasHr)) <= Len(hasHr)
                /\ hasTemp # << >> =>
                       /\ hm.body_temp # None
                       /\ (\A i \in 1..Len(hasTemp) : hasTemp[i].body_temp[1] # NaN) =>
                              /\ 2 * (hm.body_temp[1] * Len(hasTemp) - tempTotal) <= Len(hasTemp)
                              /\ 2 * (tempTotal - hm.body_temp[1] * Len(hasTemp)) <= Len(hasTemp)
                /\ Len(CowScores.hr_score) = (IF hasHr # << >> THEN 1 ELSE 0)
                /\ Len(CowScores.temp_score) = (IF hasTemp # << >> THEN 1 ELSE 0)
                /\ Len(CowScoreList) = present
                /\ present > 0 =>
                       /\ hm.overall_health_percentage # None
                       /\ 2 * (hm.overall_health_percentage[1] * present
                                   - 100 * SumSeq(CowScoreList)) <= present
                       /\ 2 * (100 * SumSeq(CowScoreList)
                                   - hm.overall_health_percentage[1] * present) <= present

\* a record without body_temp but with heart_rate 121 and a record with 37.0
\* and 80: the heart rates average to 100 (100.5), the temperature is 37.0
C32_Witness ==
    \E c \in Dashboards :
        /\ ScoredCow(c)
        /\ Len(CowWindow) = 2 /\ CowWindow[1] = RecNoTemp
        /\ CowWindow[2] = Rec(NormalBp, Some(370), Some(80))
        /\ dash[c].hm.heart_rate = Some(100) /\ dash[c].hm.body_temp = Some(370)
        /\ dash[c].hm.overall_health_percentage = Some(10000)

\* C33: for every window that has some vital, and in which every value present
\* lies within the normal bands (systolic in [90,120], diastolic in [60,80],
\* body_temp in [36.5,37.5], heart_rate in [60,100]), the scorer yields
\* percentage 100.0 and status "normal".
C33_NormalVitalsScore100 ==
    \A c \in Dashboards :
        (/\ ScoredCow(c)
         /\ \E i \in 1..Len(CowWindow) :
                CowWindow[i].blood_pressure # None \/ CowWindow[i].body_temp # None
                    \/ CowWindow[i].heart_rate # None
         /\ \A i \in 1..Len(CowWindow) :
                LET r == CowWindow[i]
                IN  /\ r.blood_pressure # None =>
                           /\ r.blood_pressure[1].shape = "dict" /\ r.blood_pressure[1].numeric
                           /\ r.blood_pressure[1].systolic # None
                           /\ r.blood_pressure[1].diastolic # None
                           /\ 90 <= r.blood_pressure[1].systolic[1]
                           /\ r.blood_pressure[1].systolic[1] <= 120
                           /\ 60 <= r.blood_pressure[1].diastolic[1]
                           /\ r.blood_pressure[1].diastolic[1] <= 80
                    /\ r.body_temp # None => 365 <= r.body_temp[1] /\ r.body_temp[1] <= 375
                    /\ r.heart_rate # None => 60 <= r.heart_rate[1] /\ r.heart_rate[1] <= 100)
        => /\ dash[c].hm.overall_health_percentage = Some(10000)
           /\ dash[c].hm.health_status = Some("normal")
           /\ dash[c].list[1].overall_health_percentage = Some(10000)

\* blood pressure 90/60 and 120/80, body_temp 37.0 and 37.5 at the edges
C33_Witness ==
    \E c \in Dashboards :
        /\ ScoredCow(c)
        /\ CowWindow = << Rec(BpDict(Some(90), Some(60)), Some(370), Some(80)),
                          Rec(NormalBp, Some(375), Some(80)) >>
        /\ dash[c].hm.overall_health_percentage = Some(10000)
        /\ dash[c].hm.health_status = Some("normal")

\* C34: for an empty record sequence the scorer returns percentage absent and
\* status absent and makes no Store access: no call of the flag update, no
\* session opened, no row changed, whether or not a device id is supplied.
C34_EmptyInputAbsentNoStoreAccess ==
    \A c \in Dashboards :
        (dash[c].pc = "sleep" /\ dash[c].direct # None /\ data["cow-1"] = << >>) =>
            /\ dash[c].hm.overall_health_percentage = None
            /\ dash[c].hm.health_status = None
            /\ dash[c].upd_ret = None /\ dash[c].requested = {}
            /\ dash[c].db_open = 0
            /\ animal["cow-1"].is_critical = None

\* the scorer was called on the empty history with the device id "cow-1"
C34_Witness ==
    \E c \in Dashboards :
        /\ dash[c].pc = "sleep" /\ data["cow-1"] = << >>
        /\ dash[c].direct = Some(Some("cow-1"))
        /\ dash[c].hm = AbsentAssessment

C36_AssessmentWellFormed ==
    \A c \in Dashboards :
        LET WellFormed(a) ==
                /\ a.overall_health_percentage = None <=> a.health_status = None
                /\ a.overall_health_percentage # None =>
                       /\ 0 <= a.overall_health_percentage[1]
                       /\ a.overall_health_percentage[1] <= 10000
                       /\ a.health_status[1] \in {"normal", "warning", "critical"}
        IN  /\ WellFormed(dash[c].hm)
            /\ \A i \in 1..Len(dash[c].list) : WellFormed(dash[c].list[i])

\* an assessment with both outputs present, 30.0 and "critical"
C36_Witness ==
    \E c \in Dashboards :
        /\ ScoredCow(c)
        /\ dash[c].hm.overall_health_percentage = Some(3000)
        /\ dash[c].hm.health_status = Some("critical")
        /\ dash[c].list[1].health_status = Some("critical")

\* C37: a metric the device never sent stays absent from ingestion through to
\* scoring: the device "cow-1" only ever sends {"heart_rate": 180}, so its
\* stored records have no blood pressure and no body temperature, and the
\* assessment of a tick averages no blood pressure and no body temperature
\* (the only score is that of the heart rate).
C37_UnsentMetricStaysAbsent ==
    /\ \A i \in 1..Len(data["cow-1"]) :
           data["cow-1"][i].blood_pressure = None /\ data["cow-1"][i].body_temp = None
    /\ \A c \in Dashboards :
           (dash[c].pc = "send" /\ dash[c].initial_sent /\ Len(dash[c].list) = 1) =>
               /\ dash[c].hm.blood_pressure = None /\ dash[c].hm.body_temp = None
               /\ dash[c].hm.overall_health_percentage = Some(3000)

\* C38: the ticks of a dashboard connection that has not sent its first
\* snapshot write nothing to the Store: no step of such a connection calls the
\* scorer or the flag update, and each leaves every Device row, is_critical
\* included, as it was, also for devices whose records score critical.
C38_InitialTickWritesNothing ==
    [][\A c \in Dashboards :
          (~dash[c].initial_sent /\ dash'[c] # dash[c]) =>
              /\ animal' = animal /\ data' = data
              /\ dash'[c].pc \notin {"upd_query", "upd_commit"}
              /\ dash'[c].hm = AbsentAssessment
              /\ dash'[c].requested = {} /\ dash'[c].upd_ret = None
              /\ dash'[c].db_open = 0]_vars

\* the first snapshot went out with a null entry for a device whose records
\* score critical, and no device has its flag set
C38_Witness ==
    \E c \in Dashboards :
        /\ dash[c].pc = "sleep" /\ dash[c].sent_any /\ ~dash[c].err_sent
        /\ NullEntryOfCriticalDevice(c)
        /\ \A d \in DeviceIds : animal[d].is_critical = None

C40_FallbackScoreNeverProduced ==
    \A c \in Dashboards :
        ScoredCow(c) =>
            \A i \in 1..Len(CowScoreList) : CowScoreList[i] \in {100, 70, 50, 30}

====
